---- MODULE Spec2Model ----
(***************************************************************************)
(* The RPC server of myrpc (package server): the accept loop, the          *)
(* per-connection read/dispatch/write loop of ServeConn, the call tasks,   *)
(* the pooled call contexts and the graceful shutdown.                     *)
(*                                                                         *)
(* A connection c has one reader (process 0 of c) and one call task per    *)
(* decoded request (process i of c for the i-th frame read from c).        *)
(***************************************************************************)
EXTENDS Integers, Sequences, FiniteSets, Bags, TLC

VARIABLES
    running,     \* Server.running
    listener,    \* Server.listener: "nil", "open" or "closed"
    muHeld,      \* Server.mu is write-locked (by close, for the whole wait)
    callGroup,   \* Server.callGroup: the counter of the wait group
    sd,          \* the invocation of close(ctx) in progress or last returned
    pool,        \* Server.contextPool: a bag of contexts
    pc,          \* pc[c][i]: position of process i of connection c
    ctx,         \* ctx[c][i]: the context process i of connection c holds
    arg,         \* arg[c][i]: the errmsg argument of the sendResponse in progress
    rr,          \* rr[c]: what readRequest returned to the reader of c
    outcome,     \* outcome[c][i]: how the invoker of call i ended (history)
    reqs,        \* reqs[c]: the frames read from c so far: what the peer sent,
                 \* what the header read made of it (history)
    framing,     \* framing[c]: what the next unread frame of the input of c is
    lastSink,    \* lastSink[c]: sink of the body read of the current iteration
    sending,     \* sending[c]: the holders of the send mutex of ServeConn(c)
    closed,      \* closed[c]: conn.Close() was called
    out,         \* out[c]: the parts written to c, in order
    httpServer,  \* the http.Server of ServeByHTTP/ServeByMux: "off" or "serving"
    web,         \* web[c]: the HTTP exchange on c and what ServeHTTP made of it
    PluginContainer, \* Server.PluginContainer: the server-wide plugins, in order
    serviceMap,  \* Server.serviceMap: path -> Service
    routers,     \* Server.routers
    baseMetadata,\* Server.baseMetadata
    heap,        \* the backing arrays of the prefix slices of the groups
    groups,      \* the ServiceGroup objects created so far, in order
    fatal,       \* log.Fatal was called: the process has exited
    hooks,       \* the register hooks run by the last register call (history)
    last,        \* the last Group/Register call and what it returned (history)
    codec,       \* codec[c]: the server codec of connection c: "nil" or "bound"
    sreq         \* sreq[c]: the ServeRequest call on c in progress or last
                 \* returned (history)

\* The state of the HTTP front of the server.
httpVars == <<httpServer, web>>

\* The state of the registry and of the groups.
regVars == <<PluginContainer, serviceMap, routers, baseMetadata, heap, groups,
             fatal, hooks, last>>

\* The state of the listener, the connections, the calls and the shutdown.
connVars == <<running, listener, muHeld, callGroup, sd, pool, pc, ctx, arg, rr,
              outcome, reqs, framing, lastSink, sending, closed, out>>

\* The state of the entry points ServeConn and ServeRequest.
entryVars == <<codec, sreq>>

vars == <<connVars, httpVars, regVars, entryVars>>

\* Bound: the number of requests the peers send.
MaxReqs == 2

\* The connections that clients open.
Conns == {"c1", "c2"}

\* The connections opened where one connection is followed.
Served == {"c1"}
Tasks == 1..MaxReqs
Procs == 0..MaxReqs

(* ------------------------------------------------------------------ *)
(* Values                                                              *)
(* ------------------------------------------------------------------ *)

ErrorTypeServerService == "server service"
ErrorTypeServerServicePanic == "server service panic"
ServicePanic == "Service Panic!"
EOF == "EOF"

\* The sentinel body of an error response.
invalidRequest == [kind |-> "invalidRequest", val |-> 0]

\* reflect.Value.Interface() of a reply value.
Interface(replyv) == [kind |-> "reply", val |-> replyv]

\* A context as contextPool.New builds it; argv/replyv 0 is the zero Value,
\* codecConn "nil" is nil, query "nil" is the nil url.Values ("empty" is
\* url.Values{}, "parsed" the parameters of a request).
NewContext ==
    [codecConn |-> "nil", data |-> "nil",
     reqSeq |-> 0, reqMethod |-> "",
     respSeq |-> 0, respMethod |-> "", respError |-> "",
     service |-> "nil", query |-> "nil", argv |-> 0, replyv |-> 0,
     rpcErrorType |-> ""]

\* The value of ctx[c][i] while process i holds no context.
NoContext == [NewContext EXCEPT !.data = "absent"]

\* The kinds of frame a peer can make the reader see.
CallKinds == {"call", "badbody"}
KeepKinds == {"call", "badbody", "unknown", "veto"}
EndKinds == {"eof", "corrupt"}
Kinds == KeepKinds \cup EndKinds

MethodOf(kind) == IF kind = "unknown" THEN "/nope" ELSE "/arith/mul"

\* How an invoker can end: a reply, a failure with an error text, a failure
\* whose Error() text is empty (returned with or without a reply value), a
\* panic.
Failures == {"fail", "failEmpty", "failEmptyNoReply"}
Outcomes == {"ok", "panic"} \cup Failures

ErrorText(o) == IF o = "fail" THEN "divide by zero" ELSE ""

\* Context.readRequestHeader on a frame of this kind.
HeaderResult(kind) ==
    CASE kind = "call"    -> [keepReading |-> TRUE, notSend |-> FALSE, err |-> ""]
      [] kind = "badbody" -> [keepReading |-> TRUE, notSend |-> FALSE, err |-> ""]
      [] kind = "unknown" -> [keepReading |-> TRUE, notSend |-> FALSE,
                              err |-> "rpc: can't find service/method /nope"]
      [] kind = "veto"    -> [keepReading |-> TRUE, notSend |-> TRUE,
                              err |-> "rejected by plugin"]
      [] kind = "eof"     -> [keepReading |-> FALSE, notSend |-> FALSE, err |-> EOF]
      [] OTHER            -> [keepReading |-> FALSE, notSend |-> FALSE,
                              err |-> "ReadRequestHeader: invalid frame"]

NoResult == [keepReading |-> FALSE, notSend |-> FALSE, err |-> ""]

\* Context.readRequestBody into the argument storage.
BodyError(kind) == IF kind = "badbody" THEN "ReadRequestBody: unexpected EOF" ELSE ""

RECURSIVE RequestsOn(_)
RequestsOn(s) ==
    IF s = <<>> THEN 0
    ELSE (IF Head(s).kind \in KeepKinds THEN 1 ELSE 0) + RequestsOn(Tail(s))

RECURSIVE RequestsOnAll(_)
RequestsOnAll(S) ==
    IF S = {} THEN 0
    ELSE LET c == CHOOSE x \in S : TRUE
         IN  RequestsOn(reqs[c]) + RequestsOnAll(S \ {c})

\* The requests read so far, on all connections.
TotalRequests == RequestsOnAll(Conns)

\* The request process i of connection c is serving.
ReqOf(c, i) == IF i = 0 THEN Len(reqs[c]) ELSE i

\* common.Connected
Connected == "200 Connected to Go RPC"

StatusMethodNotAllowed == 405

\* An http.ResponseWriter nothing was written to: header is the Content-Type
\* set in the header map, sent the Content-Type of the header block that
\* went out with the status line, status 0 means no status line yet.
NewResponseWriter == [header |-> "", status |-> 0, sent |-> "", body |-> ""]

\* web[c] before ServeHTTP is called for c.
NoExchange ==
    [method |-> "", w |-> NewResponseWriter, hijacked |-> FALSE,
     postConnAccept |-> "none", line |-> ""]

\* last before any Group or Register call.
NoCall == [op |-> "none"]

\* sreq[c] before ServeRequest is called for c: ret is what the call
\* returned ("pending" while it runs), from and outFrom the numbers of
\* frames read from c and of parts written to c when it was entered, outcome
\* how its invoker ended.
NoServeRequest == [ret |-> "none", from |-> 0, outFrom |-> 0, outcome |-> "none"]

(* ------------------------------------------------------------------ *)
(* Initial state: NewServer(srv), nothing served yet                   *)
(* ------------------------------------------------------------------ *)

Init ==
    /\ running = FALSE
    /\ listener = "nil"
    /\ muHeld = FALSE
    /\ callGroup = 0
    /\ sd = [pc |-> "idle", result |-> "none", waited |-> FALSE, before |-> {}]
    /\ pool = EmptyBag
    /\ pc = [c \in Conns |-> [i \in Procs |-> IF i = 0 THEN "new" ELSE "none"]]
    /\ ctx = [c \in Conns |-> [i \in Procs |-> NoContext]]
    /\ arg = [c \in Conns |-> [i \in Procs |-> ""]]
    /\ rr = [c \in Conns |-> NoResult]
    /\ outcome = [c \in Conns |-> [i \in Tasks |-> "none"]]
    /\ reqs = [c \in Conns |-> <<>>]
    /\ framing = [c \in Conns |-> "header"]
    /\ lastSink = [c \in Conns |-> "none"]
    /\ sending = [c \in Conns |-> {}]
    /\ closed = [c \in Conns |-> FALSE]
    /\ out = [c \in Conns |-> <<>>]
    /\ httpServer = "off"
    /\ web = [c \in Conns |-> NoExchange]
    /\ PluginContainer = <<>>
    /\ serviceMap = <<>>
    /\ routers = <<>>
    /\ baseMetadata = ""
    /\ heap = <<>>
    /\ groups = <<>>
    /\ fatal = FALSE
    /\ hooks = <<>>
    /\ last = NoCall
    /\ codec = [c \in Conns |-> "nil"]
    /\ sreq = [c \in Conns |-> NoServeRequest]

(* ------------------------------------------------------------------ *)
(* The context pool                                                    *)
(* ------------------------------------------------------------------ *)

\* Server.getContext: what it does to the context the pool hands out.
getContext(x, c) == [x EXCEPT !.codecConn = c, !.data = "map"]

\* Server.putContext: the reset before the context goes back to the pool.
putContext(x) ==
    [x EXCEPT !.data = "nil", !.codecConn = "nil",
              !.reqMethod = "", !.reqSeq = 0,
              !.respError = "", !.respSeq = 0, !.respMethod = "",
              !.service = "nil", !.query = "empty", !.argv = 0, !.replyv = 0]

(* ------------------------------------------------------------------ *)
(* serveListener                                                       *)
(* ------------------------------------------------------------------ *)

\* serveListener up to the accept loop.
serveListener ==
    /\ listener = "nil"
    /\ ~muHeld
    /\ listener' = "open"
    /\ running' = TRUE
    /\ UNCHANGED <<muHeld, callGroup, sd, pool, pc, ctx, arg, rr, outcome, reqs,
                   framing, lastSink, sending, closed, out>>
    /\ UNCHANGED <<httpVars, regVars, entryVars>>

\* The head of ServeConn and of ServeRequest: a connection without a server
\* codec gets the one of Server.ServerCodecFunc.
SetServerCodec(cd) == IF cd = "nil" THEN "bound" ELSE cd

\* An accept loop that hands every connection to ServeConn.
AcceptBranchServeAll(ok) == IF ok THEN "loop" ELSE "loop"

\* The accept loop after doPostConnAccept: go ServeConn (the reader starts at
\* the head of its loop), or continue with the connection dropped.
AcceptBranch(ok) == IF ok THEN "loop" ELSE "rejected"

\* One round of the accept loop: a connection is accepted, the server-wide
\* PostConnAccept hook accepts or rejects it, an accepted one gets a reader
\* (go ServeConn, which binds the codec and enters its loop).
Accept(c) ==
    /\ listener = "open"
    /\ pc[c][0] = "new"
    /\ \E ok \in BOOLEAN :
          /\ pc' = [pc EXCEPT ![c][0] = AcceptBranch(ok)]
          /\ codec' = [codec EXCEPT ![c] = IF ok THEN SetServerCodec(@) ELSE @]
          /\ web' = [web EXCEPT ![c].postConnAccept =
                                    IF ok THEN "accepted" ELSE "rejected"]
    /\ UNCHANGED <<running, listener, muHeld, callGroup, sd, pool, ctx, arg, rr,
                   outcome, reqs, framing, lastSink, sending, closed, out>>
    /\ UNCHANGED <<httpServer, regVars, sreq>>

(* ------------------------------------------------------------------ *)
(* ServeConn: the reader of a connection                               *)
(* ------------------------------------------------------------------ *)

\* Server.isRunning takes the read lock of Server.mu.
isRunningEnabled == ~muHeld

\* The head of the loop of ServeConn: the test of isRunning, then either
\* getContext (the pool hands out a pooled context or a new one) and the
\* blocking read, or the end of the loop.
ServeConnLoop(c) ==
    /\ pc[c][0] = "loop"
    /\ isRunningEnabled
    /\ IF running
       THEN /\ \/ /\ pool' = pool
                  /\ ctx' = [ctx EXCEPT ![c][0] = getContext(NewContext, c)]
               \/ \E x \in BagToSet(pool) :
                     /\ pool' = pool (-) SetToBag({x})
                     /\ ctx' = [ctx EXCEPT ![c][0] = getContext(x, c)]
            /\ pc' = [pc EXCEPT ![c][0] = "reading"]
       ELSE /\ pc' = [pc EXCEPT ![c][0] = "close"]
            /\ UNCHANGED <<pool, ctx>>
    /\ UNCHANGED <<running, listener, muHeld, callGroup, sd, arg, rr, outcome,
                   reqs, framing, lastSink, sending, closed, out>>
    /\ UNCHANGED <<httpVars, regVars, entryVars>>

\* The frame the header read really sees: after a body was left unread, or a
\* body read ate a header, the bytes it decodes are not a header.
Seen(c, kind) == IF framing[c] = "header" THEN kind ELSE "corrupt"

\* Context.readRequestHeader, called first by readRequest: the peer sends a
\* frame of some kind (or hangs up); a cleanly framed header fills ctx.req and
\* the service is resolved under the read lock of Server.mu.
readRequestHeader(c) ==
    /\ pc[c][0] = "reading"
    /\ \E kind \in Kinds :
          LET k == Seen(c, kind)
              h == HeaderResult(k)
              n == Len(reqs[c]) + 1
          IN  /\ kind \in KeepKinds => TotalRequests < MaxReqs
              /\ k \in KeepKinds => ~muHeld
              /\ reqs' = [reqs EXCEPT ![c] = Append(@,
                            [sent |-> kind, kind |-> k, seq |-> n,
                             method |-> MethodOf(k)])]
              /\ rr' = [rr EXCEPT ![c] = h]
              /\ ctx' = [ctx EXCEPT ![c][0] =
                            IF k \in KeepKinds
                            THEN [@ EXCEPT !.reqSeq = n, !.reqMethod = MethodOf(k),
                                           !.query = "parsed",
                                           !.service = IF k \in CallKinds THEN "arith" ELSE "nil"]
                            ELSE @]
              /\ framing' = [framing EXCEPT ![c] =
                                IF k \in KeepKinds THEN "body"
                                ELSE IF k = "eof" THEN @ ELSE "lost"]
    /\ lastSink' = [lastSink EXCEPT ![c] = "none"]
    /\ pc' = [pc EXCEPT ![c][0] = "header"]
    /\ UNCHANGED <<running, listener, muHeld, callGroup, sd, pool, arg, outcome,
                   sending, closed, out>>
    /\ UNCHANGED <<httpVars, regVars, entryVars>>

\* A readRequest that returns on every header error, body unread.
readRequestNoDiscard(h) == IF h.err # "" THEN "return" ELSE "decode"

\* What readRequest does after the header step: "return" without a body read,
\* "discard" the body into a nil sink, or "decode" it into the argument.
readRequestStep(h) ==
    IF h.err # ""
    THEN IF ~h.keepReading THEN "return" ELSE "discard"
    ELSE "decode"

\* A body read moves the input past one frame.
AfterBodyRead(f) == IF f = "body" THEN "header" ELSE "lost"

\* Server.readRequest after the header step.
readRequest(c) ==
    /\ pc[c][0] = "header"
    /\ LET step == readRequestStep(rr[c])
           kind == reqs[c][Len(reqs[c])].kind
       IN  CASE step = "return" ->
                  UNCHANGED <<rr, ctx, framing, lastSink>>
             [] step = "discard" ->
                  /\ framing' = [framing EXCEPT ![c] = AfterBodyRead(@)]
                  /\ lastSink' = [lastSink EXCEPT ![c] = "nil"]
                  /\ UNCHANGED <<rr, ctx>>
             [] OTHER ->
                  /\ framing' = [framing EXCEPT ![c] = AfterBodyRead(@)]
                  /\ lastSink' = [lastSink EXCEPT ![c] = "argv"]
                  /\ ctx' = [ctx EXCEPT ![c][0].argv = ctx[c][0].reqSeq]
                  /\ rr' = [rr EXCEPT ![c].err = BodyError(kind)]
    /\ pc' = [pc EXCEPT ![c][0] = "read"]
    /\ UNCHANGED <<running, listener, muHeld, callGroup, sd, pool, arg, outcome,
                   reqs, sending, closed, out>>
    /\ UNCHANGED <<httpVars, regVars, entryVars>>

\* A ServeConn that answers no read error.
ServeConnBranchNoSend(h) == IF h.err = "" THEN "spawn" ELSE "put"

\* A ServeConn that does not look at notSend.
ServeConnBranchAlwaysSend(h) ==
    IF h.err = "" THEN "spawn"
    ELSE IF h.keepReading THEN "send"
    ELSE "put"

\* A ServeConn that serves a decoded request itself, like ServeRequest.
ServeConnBranchSerial(h) ==
    IF h.err = "" THEN "send"
    ELSE IF h.keepReading /\ ~h.notSend THEN "send"
    ELSE "put"

\* The branch ServeConn takes on what readRequest returned: "spawn" a call
\* task, "send" an error response, or go straight to "put".
ServeConnBranch(h) ==
    IF h.err = "" THEN "spawn"
    ELSE IF h.keepReading /\ ~h.notSend THEN "send"
    ELSE "put"

\* ServeConn after readRequest returned: callGroup.Add(1), then the branch.
ServeConnDispatch(c) ==
    /\ pc[c][0] = "read"
    /\ callGroup' = callGroup + 1
    /\ LET b == ServeConnBranch(rr[c])
           i == Len(reqs[c])
       IN  CASE b = "spawn" ->
                  /\ pc' = [pc EXCEPT ![c][0] = "loop", ![c][i] = "invoke"]
                  /\ ctx' = [ctx EXCEPT ![c][i] = ctx[c][0], ![c][0] = NoContext]
                  /\ arg' = arg
             [] b = "send" ->
                  /\ pc' = [pc EXCEPT ![c][0] = "send"]
                  /\ arg' = [arg EXCEPT ![c][0] = rr[c].err]
                  /\ ctx' = ctx
             [] OTHER ->
                  /\ pc' = [pc EXCEPT ![c][0] = "put"]
                  /\ UNCHANGED <<ctx, arg>>
    /\ UNCHANGED <<running, listener, muHeld, sd, pool, rr, outcome, reqs,
                   framing, lastSink, sending, closed, out>>
    /\ UNCHANGED <<httpVars, regVars, entryVars>>

\* A ServeConn that continues where it should break.
ServeConnNextNoBreak(h) == "loop"

\* Where the reader goes after putContext and callGroup.Done(): back to the
\* head of the loop (continue) or out of it (break).
ServeConnNext(h) == IF h.keepReading THEN "loop" ELSE "close"

\* The end of an error iteration of ServeConn: putContext, callGroup.Done().
ServeConnPut(c) ==
    /\ pc[c][0] = "put"
    /\ pool' = pool (+) SetToBag({putContext(ctx[c][0])})
    /\ ctx' = [ctx EXCEPT ![c][0] = NoContext]
    /\ callGroup' = callGroup - 1
    /\ pc' = [pc EXCEPT ![c][0] = ServeConnNext(rr[c])]
    /\ UNCHANGED <<running, listener, muHeld, sd, arg, rr, outcome, reqs,
                   framing, lastSink, sending, closed, out>>
    /\ UNCHANGED <<httpVars, regVars, entryVars>>

\* conn.Close() after the loop of ServeConn.
ServeConnClose(c) ==
    /\ pc[c][0] = "close"
    /\ closed' = [closed EXCEPT ![c] = TRUE]
    /\ pc' = [pc EXCEPT ![c][0] = "done"]
    /\ UNCHANGED <<running, listener, muHeld, callGroup, sd, pool, ctx, arg, rr,
                   outcome, reqs, framing, lastSink, sending, out>>
    /\ UNCHANGED <<httpVars, regVars, entryVars>>

(* ------------------------------------------------------------------ *)
(* call and sendResponse                                               *)
(* ------------------------------------------------------------------ *)

\* ctx.service.Call for an argument: the reply value of the service.
ReplyOf(argv) == argv + MaxReqs

\* Server.call up to the sendResponse that writes: the invoker ends in one of
\* Outcomes; a panic is recovered by the deferred function, and so is the
\* panic of sendResponse when it takes Interface() of a zero reply value (an
\* empty errmsg with no reply). The result is the context and the errmsg
\* handed to the sendResponse that writes.
call(x, o) ==
    CASE o = "panic" ->
           [ctx |-> [x EXCEPT !.rpcErrorType = ErrorTypeServerServicePanic],
            errmsg |-> ServicePanic]
      [] o = "ok" ->
           [ctx |-> [x EXCEPT !.replyv = ReplyOf(x.argv)], errmsg |-> ""]
      [] o = "failEmptyNoReply" ->
           [ctx |-> [x EXCEPT !.rpcErrorType = ErrorTypeServerServicePanic],
            errmsg |-> ServicePanic]
      [] OTHER ->
           [ctx |-> [x EXCEPT !.replyv = ReplyOf(x.argv),
                              !.rpcErrorType = ErrorTypeServerService],
            errmsg |-> ErrorText(o)]

\* The call task of request i of connection c runs the invoker.
Call(c, i) ==
    /\ i \in Tasks
    /\ pc[c][i] = "invoke"
    /\ \E o \in Outcomes :
          LET r == call(ctx[c][i], o)
          IN  /\ outcome' = [outcome EXCEPT ![c][i] = o]
              /\ ctx' = [ctx EXCEPT ![c][i] = r.ctx]
              /\ arg' = [arg EXCEPT ![c][i] = r.errmsg]
    /\ pc' = [pc EXCEPT ![c][i] = "send"]
    /\ UNCHANGED <<running, listener, muHeld, callGroup, sd, pool, rr, reqs,
                   framing, lastSink, sending, closed, out>>
    /\ UNCHANGED <<httpVars, regVars, entryVars>>

\* A sendResponse that leaves ctx.resp.Seq as it was.
responseHeaderStaleSeq(x, errmsg) ==
    [x EXCEPT !.respMethod = x.reqMethod,
              !.respError = IF errmsg # "" THEN errmsg ELSE @]

\* sendResponse: the response header it encodes into ctx.resp.
responseHeader(x, errmsg) ==
    [x EXCEPT !.respMethod = x.reqMethod,
              !.respError = IF errmsg # "" THEN errmsg ELSE @,
              !.respSeq = x.reqSeq]

\* A sendResponse that always sends the reply value.
responseBodyAlwaysReply(x, errmsg) == Interface(x.replyv)

\* sendResponse: the body it hands to writeResponse.
responseBody(x, errmsg) ==
    IF errmsg # "" THEN invalidRequest ELSE Interface(x.replyv)

\* A Lock() that never waits.
LockNeverWaits(c) == c \in Conns

\* sending.Lock() returns only when nobody holds the mutex.
LockFree(c) == sending[c] = {}

\* sendResponse up to the write: the header is encoded, the mutex is taken.
sendResponse(c, i) ==
    /\ pc[c][i] = "send"
    /\ LockFree(c)
    /\ sending' = [sending EXCEPT ![c] = @ \cup {i}]
    /\ ctx' = [ctx EXCEPT ![c][i] = responseHeader(@, arg[c][i])]
    /\ pc' = [pc EXCEPT ![c][i] = "whdr"]
    /\ UNCHANGED <<running, listener, muHeld, callGroup, sd, pool, arg, rr,
                   outcome, reqs, framing, lastSink, closed, out>>
    /\ UNCHANGED <<httpVars, regVars, entryVars>>

\* The two parts of a response frame on the wire; req is the request the
\* writer is serving (history, not on the wire).
HeaderPart(c, i) ==
    [part |-> "H", req |-> ReqOf(c, i), seq |-> ctx[c][i].respSeq,
     method |-> ctx[c][i].respMethod, error |-> ctx[c][i].respError,
     body |-> invalidRequest]

BodyPart(c, i) ==
    [part |-> "B", req |-> ReqOf(c, i), seq |-> 0, method |-> "", error |-> "",
     body |-> responseBody(ctx[c][i], arg[c][i])]

\* Context.writeResponse, first half: the header goes on the wire; on a
\* closed connection the write fails, sendResponse logs that and unlocks.
writeHeader(c, i) ==
    /\ pc[c][i] = "whdr"
    /\ IF closed[c]
       THEN /\ sending' = [sending EXCEPT ![c] = @ \ {i}]
            /\ pc' = [pc EXCEPT ![c][i] = "put"]
            /\ out' = out
       ELSE /\ out' = [out EXCEPT ![c] = Append(@, HeaderPart(c, i))]
            /\ pc' = [pc EXCEPT ![c][i] = "wbody"]
            /\ sending' = sending
    /\ UNCHANGED <<running, listener, muHeld, callGroup, sd, pool, ctx, arg, rr,
                   outcome, reqs, framing, lastSink, closed>>
    /\ UNCHANGED <<httpVars, regVars, entryVars>>

\* Context.writeResponse, second half, then sending.Unlock().
writeBody(c, i) ==
    /\ pc[c][i] = "wbody"
    /\ out' = IF closed[c] THEN out
              ELSE [out EXCEPT ![c] = Append(@, BodyPart(c, i))]
    /\ sending' = [sending EXCEPT ![c] = @ \ {i}]
    /\ pc' = [pc EXCEPT ![c][i] = "put"]
    /\ UNCHANGED <<running, listener, muHeld, callGroup, sd, pool, ctx, arg, rr,
                   outcome, reqs, framing, lastSink, closed>>
    /\ UNCHANGED <<httpVars, regVars, entryVars>>

\* A call task that ends without callGroup.Done().
CallDoneNoDone(c, i) ==
    /\ i \in Tasks
    /\ pc[c][i] = "put"
    /\ pool' = pool (+) SetToBag({putContext(ctx[c][i])})
    /\ ctx' = [ctx EXCEPT ![c][i] = NoContext]
    /\ pc' = [pc EXCEPT ![c][i] = "done"]
    /\ UNCHANGED <<running, listener, muHeld, callGroup, sd, arg, rr, outcome,
                   reqs, framing, lastSink, sending, closed, out>>
    /\ UNCHANGED <<httpVars, regVars, entryVars>>

\* The end of the call task spawned by ServeConn: putContext, callGroup.Done().
CallDone(c, i) ==
    /\ i \in Tasks
    /\ pc[c][i] = "put"
    /\ pool' = pool (+) SetToBag({putContext(ctx[c][i])})
    /\ ctx' = [ctx EXCEPT ![c][i] = NoContext]
    /\ callGroup' = callGroup - 1
    /\ pc' = [pc EXCEPT ![c][i] = "done"]
    /\ UNCHANGED <<running, listener, muHeld, sd, arg, rr, outcome, reqs,
                   framing, lastSink, sending, closed, out>>
    /\ UNCHANGED <<httpVars, regVars, entryVars>>

(* ------------------------------------------------------------------ *)
(* close(ctx): the shutdown of the server                              *)
(* ------------------------------------------------------------------ *)

\* The calls that have entered the invoker.
Entered == {t \in Conns \X Tasks : pc[t[1]][t[2]] # "none"}

\* close, from its entry to the select: nothing to do without a listener or
\* when the server is not running; else the listener is closed, Server.mu is
\* locked until close returns, running is cleared and the waiter is started.
closeBegin ==
    /\ sd.pc # "waiting"
    /\ ~muHeld
    /\ IF listener = "nil"
       THEN /\ sd' = [pc |-> "returned", result |-> "nil", waited |-> FALSE,
                      before |-> Entered]
            /\ UNCHANGED <<listener, running, muHeld>>
       ELSE /\ listener' = "closed"
            /\ IF ~running
               THEN /\ sd' = [pc |-> "returned", result |-> "nil",
                              waited |-> FALSE, before |-> Entered]
                    /\ UNCHANGED <<running, muHeld>>
               ELSE /\ running' = FALSE
                    /\ muHeld' = TRUE
                    /\ sd' = [pc |-> "waiting", result |-> "none",
                              waited |-> FALSE, before |-> Entered]
    /\ UNCHANGED <<callGroup, pool, pc, ctx, arg, rr, outcome, reqs, framing,
                   lastSink, sending, closed, out>>
    /\ UNCHANGED <<httpVars, regVars, entryVars>>

\* The waiter of close: callGroup.Wait() returns at counter zero, c is closed.
closeWaiter ==
    /\ sd.pc = "waiting"
    /\ ~sd.waited
    /\ callGroup = 0
    /\ sd' = [sd EXCEPT !.waited = TRUE]
    /\ UNCHANGED <<running, listener, muHeld, callGroup, pool, pc, ctx, arg, rr,
                   outcome, reqs, framing, lastSink, sending, closed, out>>
    /\ UNCHANGED <<httpVars, regVars, entryVars>>

\* The select of close takes <-c: close returns nil and unlocks Server.mu.
closeDrained ==
    /\ sd.pc = "waiting"
    /\ sd.waited
    /\ sd' = [sd EXCEPT !.pc = "returned", !.result = "nil"]
    /\ muHeld' = FALSE
    /\ UNCHANGED <<running, listener, callGroup, pool, pc, ctx, arg, rr,
                   outcome, reqs, framing, lastSink, sending, closed, out>>
    /\ UNCHANGED <<httpVars, regVars, entryVars>>

\* The select of close takes <-ctx.Done(): the deadline fired, close returns
\* the error of the context and unlocks Server.mu.
closeTimeout ==
    /\ sd.pc = "waiting"
    /\ sd' = [sd EXCEPT !.pc = "returned", !.result = "timeout"]
    /\ muHeld' = FALSE
    /\ UNCHANGED <<running, listener, callGroup, pool, pc, ctx, arg, rr,
                   outcome, reqs, framing, lastSink, sending, closed, out>>
    /\ UNCHANGED <<httpVars, regVars, entryVars>>

(* ------------------------------------------------------------------ *)
(* The specification                                                   *)
(* ------------------------------------------------------------------ *)

Next ==
    \/ serveListener
    \/ \E c \in Served : Accept(c)
    \/ \E c \in Served : ServeConnLoop(c)
    \/ \E c \in Served : readRequestHeader(c)
    \/ \E c \in Served : readRequest(c)
    \/ \E c \in Served : ServeConnDispatch(c)
    \/ \E c \in Served : ServeConnPut(c)
    \/ \E c \in Served : ServeConnClose(c)
    \/ \E c \in Served, i \in Tasks : Call(c, i)
    \/ \E c \in Served, i \in Procs : sendResponse(c, i)
    \/ \E c \in Served, i \in Procs : writeHeader(c, i)
    \/ \E c \in Served, i \in Procs : writeBody(c, i)
    \/ \E c \in Served, i \in Tasks : CallDone(c, i)
    \/ closeBegin
    \/ closeWaiter
    \/ closeDrained
    \/ closeTimeout

Spec == Init /\ [][Next]_vars

\* Serve, ServeTLS or ServeListener called again on a server whose listener
\* a shutdown has closed: serveListener installs the new listener and sets
\* running.
serveListenerAgain ==
    /\ listener = "closed"
    /\ ~muHeld
    /\ listener' = "open"
    /\ running' = TRUE
    /\ UNCHANGED <<muHeld, callGroup, sd, pool, pc, ctx, arg, rr, outcome, reqs,
                   framing, lastSink, sending, closed, out>>
    /\ UNCHANGED <<httpVars, regVars, entryVars>>

RestartNext ==
    \/ serveListenerAgain
    \/ Next

\* The server under any sequence of Serve calls and shutdowns.
RestartSpec == Init /\ [][RestartNext]_vars

\* ctx.writeResponse panics (the codec, or a hook run inside it) in the
\* sendResponse that server.call made after the invoker returned: the send
\* mutex was locked at line 524 and line 529 is not reached; the deferred
\* function of call recovers, sets the error type and calls sendResponse with
\* "Service Panic!". (A panic in the sendResponse of the deferred function
\* itself is not recovered and ends the process: not followed.)
writePanic(c, i) ==
    /\ i \in Tasks
    /\ pc[c][i] \in {"whdr", "wbody"}
    /\ outcome[c][i] \in {"ok", "fail", "failEmpty"}
    /\ arg[c][i] # ServicePanic
    /\ ctx' = [ctx EXCEPT ![c][i].rpcErrorType = ErrorTypeServerServicePanic]
    /\ arg' = [arg EXCEPT ![c][i] = ServicePanic]
    /\ pc' = [pc EXCEPT ![c][i] = "send"]
    /\ UNCHANGED <<running, listener, muHeld, callGroup, sd, pool, rr, outcome,
                   reqs, framing, lastSink, sending, closed, out>>
    /\ UNCHANGED <<httpVars, regVars, entryVars>>

PanicNext ==
    \/ \E c \in Served, i \in Tasks : writePanic(c, i)
    \/ Next

\* The server with codecs and hooks that can panic in a response write.
PanicSpec == Init /\ [][PanicNext]_vars

(* ------------------------------------------------------------------ *)
(* ServeRequest: one request served by the caller itself               *)
(* ------------------------------------------------------------------ *)

\* ServeRequest up to readRequest: the error when the server is not running;
\* else the codec is bound and a context is taken from the pool.
ServeRequestBegin(c) ==
    /\ pc[c][0] = "new"
    /\ sreq[c].ret # "pending"
    /\ Len(reqs[c]) <= MaxReqs
    /\ isRunningEnabled
    /\ IF ~running
       THEN /\ sreq' = [sreq EXCEPT ![c] =
                           [ret |-> "rpc: server has stopped",
                            from |-> Len(reqs[c]), outFrom |-> Len(out[c]),
                            outcome |-> "none"]]
            /\ UNCHANGED <<pool, ctx, pc, codec>>
       ELSE /\ sreq' = [sreq EXCEPT ![c] =
                           [ret |-> "pending",
                            from |-> Len(reqs[c]), outFrom |-> Len(out[c]),
                            outcome |-> "none"]]
            /\ codec' = [codec EXCEPT ![c] = SetServerCodec(@)]
            /\ \/ /\ pool' = pool
                  /\ ctx' = [ctx EXCEPT ![c][0] = getContext(NewContext, c)]
               \/ \E x \in BagToSet(pool) :
                     /\ pool' = pool (-) SetToBag({x})
                     /\ ctx' = [ctx EXCEPT ![c][0] = getContext(x, c)]
            /\ pc' = [pc EXCEPT ![c][0] = "reading"]
    /\ UNCHANGED <<running, listener, muHeld, callGroup, sd, arg, rr, outcome,
                   reqs, framing, lastSink, sending, closed, out>>
    /\ UNCHANGED <<httpVars, regVars>>

\* A ServeRequest that answers no read error.
ServeRequestBranchNoSend(h) == IF h.err = "" THEN "call" ELSE "put"

\* The branch ServeRequest takes on what readRequest returned: "call" the
\* service, "send" an error response, or go straight to "put".
ServeRequestBranch(h) ==
    IF h.err = "" THEN "call"
    ELSE IF h.keepReading /\ ~h.notSend THEN "send"
    ELSE "put"

\* ServeRequest after readRequest returned: callGroup.Add(1), then the branch.
ServeRequestDispatch(c) ==
    /\ pc[c][0] = "read"
    /\ sreq[c].ret = "pending"
    /\ callGroup' = callGroup + 1
    /\ LET b == ServeRequestBranch(rr[c])
       IN  CASE b = "call" ->
                  /\ pc' = [pc EXCEPT ![c][0] = "call"]
                  /\ arg' = arg
             [] b = "send" ->
                  /\ pc' = [pc EXCEPT ![c][0] = "send"]
                  /\ arg' = [arg EXCEPT ![c][0] = rr[c].err]
             [] OTHER ->
                  /\ pc' = [pc EXCEPT ![c][0] = "put"]
                  /\ arg' = arg
    /\ UNCHANGED <<running, listener, muHeld, sd, pool, ctx, rr, outcome, reqs,
                   framing, lastSink, sending, closed, out>>
    /\ UNCHANGED <<httpVars, regVars, entryVars>>

\* server.call(sending, ctx) run by ServeRequest itself: the invoker.
ServeRequestCall(c) ==
    /\ pc[c][0] = "call"
    /\ sreq[c].ret = "pending"
    /\ \E o \in Outcomes :
          LET r == call(ctx[c][0], o)
          IN  /\ sreq' = [sreq EXCEPT ![c].outcome = o]
              /\ ctx' = [ctx EXCEPT ![c][0] = r.ctx]
              /\ arg' = [arg EXCEPT ![c][0] = r.errmsg]
    /\ pc' = [pc EXCEPT ![c][0] = "send"]
    /\ UNCHANGED <<running, listener, muHeld, callGroup, sd, pool, rr, outcome,
                   reqs, framing, lastSink, sending, closed, out>>
    /\ UNCHANGED <<httpVars, regVars, codec>>

\* What ServeRequest returns: nil after the call, else the read error.
ServeRequestResult(h) == IF h.err = "" THEN "nil" ELSE h.err

\* The end of ServeRequest: putContext, callGroup.Done(), return.
ServeRequestReturn(c) ==
    /\ pc[c][0] = "put"
    /\ sreq[c].ret = "pending"
    /\ pool' = pool (+) SetToBag({putContext(ctx[c][0])})
    /\ ctx' = [ctx EXCEPT ![c][0] = NoContext]
    /\ callGroup' = callGroup - 1
    /\ pc' = [pc EXCEPT ![c][0] = "new"]
    /\ sreq' = [sreq EXCEPT ![c].ret = ServeRequestResult(rr[c])]
    /\ UNCHANGED <<running, listener, muHeld, sd, arg, rr, outcome, reqs,
                   framing, lastSink, sending, closed, out>>
    /\ UNCHANGED <<httpVars, regVars, codec>>

ServeRequestNext ==
    \/ serveListener
    \/ \E c \in Served : ServeRequestBegin(c)
    \/ \E c \in Served : readRequestHeader(c)
    \/ \E c \in Served : readRequest(c)
    \/ \E c \in Served : ServeRequestDispatch(c)
    \/ \E c \in Served : ServeRequestCall(c)
    \/ \E c \in Served, i \in Procs : sendResponse(c, i)
    \/ \E c \in Served, i \in Procs : writeHeader(c, i)
    \/ \E c \in Served, i \in Procs : writeBody(c, i)
    \/ \E c \in Served : ServeRequestReturn(c)
    \/ closeBegin
    \/ closeWaiter
    \/ closeDrained
    \/ closeTimeout

\* A server whose connections are served by calls of ServeRequest.
ServeRequestSpec == Init /\ [][ServeRequestNext]_vars

(* ------------------------------------------------------------------ *)
(* The HTTP front: ServeByHTTP, ServeByMux, ServeHTTP                  *)
(* ------------------------------------------------------------------ *)

\* The methods of the HTTP requests a client sends on the RPC path.
Methods == {"CONNECT", "POST", "GET"}

\* ServeByHTTP: the server is made the handler of the RPC path of the default
\* mux and an http.Server serves lis. Server.listener and Server.running are
\* not touched.
ServeByHTTP ==
    /\ httpServer = "off"
    /\ httpServer' = "serving"
    /\ UNCHANGED <<connVars, web, regVars, entryVars>>

\* ServeByMux: the same on the mux of the caller.
ServeByMux ==
    /\ httpServer = "off"
    /\ httpServer' = "serving"
    /\ UNCHANGED <<connVars, web, regVars, entryVars>>

\* http.Header.Set("Content-Type", v)
HeaderSet(w, v) == [w EXCEPT !.header = v]

\* http.ResponseWriter.WriteHeader: the status line goes out with the header
\* map as it is now; a second call is ignored.
WriteHeader(w, code) ==
    IF w.status # 0 THEN w ELSE [w EXCEPT !.status = code, !.sent = w.header]

\* io.WriteString(w, s)
WriteString(w, s) == [w EXCEPT !.body = @ \o s]

\* A ServeHTTP that sets the Content-Type after the status line went out.
ServeHTTPMustConnectLateHeader(w) ==
    WriteString(HeaderSet(WriteHeader(w, StatusMethodNotAllowed),
                          "text/plain; charset=utf-8"),
                "405 must CONNECT\n")

\* ServeHTTP on a request whose method is not CONNECT: what it writes to w.
ServeHTTPMustConnect(w) ==
    WriteString(WriteHeader(HeaderSet(w, "text/plain; charset=utf-8"),
                            StatusMethodNotAllowed),
                "405 must CONNECT\n")

\* Server.ServeHTTP for a request on c, up to its return or to its call of
\* ServeConn: a request that is not a CONNECT is answered 405; else the
\* stream is hijacked (which can fail), the server-wide PostConnAccept hook
\* accepts or rejects it, the handshake line is written to the stream and
\* ServeConn is entered on it.
ServeHTTP(c) ==
    /\ httpServer = "serving"
    /\ pc[c][0] = "new"
    /\ \E method \in Methods, hijackOk, acceptOk \in BOOLEAN :
          IF method # "CONNECT"
          THEN /\ web' = [web EXCEPT ![c].method = method,
                                      ![c].w = ServeHTTPMustConnect(@)]
               /\ pc' = [pc EXCEPT ![c][0] = "http"]
               /\ codec' = codec
          ELSE IF ~hijackOk
          THEN /\ web' = [web EXCEPT ![c].method = method]
               /\ pc' = [pc EXCEPT ![c][0] = "http"]
               /\ codec' = codec
          ELSE IF ~acceptOk
          THEN /\ web' = [web EXCEPT ![c].method = method,
                                      ![c].hijacked = TRUE,
                                      ![c].postConnAccept = "rejected"]
               /\ pc' = [pc EXCEPT ![c][0] = "rejected"]
               /\ codec' = codec
          ELSE /\ web' = [web EXCEPT ![c].method = method,
                                      ![c].hijacked = TRUE,
                                      ![c].postConnAccept = "accepted",
                                      ![c].line = "HTTP/1.0 " \o Connected \o "\n\n"]
               /\ pc' = [pc EXCEPT ![c][0] = "loop"]
               /\ codec' = [codec EXCEPT ![c] = SetServerCodec(@)]
    /\ UNCHANGED <<running, listener, muHeld, callGroup, sd, pool, ctx, arg, rr,
                   outcome, reqs, framing, lastSink, sending, closed, out>>
    /\ UNCHANGED <<httpServer, regVars, sreq>>

HTTPNext ==
    \/ ServeByHTTP
    \/ ServeByMux
    \/ \E c \in Served : ServeHTTP(c)
    \/ Next

\* The server with its HTTP front (and, possibly, a listener of its own).
HTTPSpec == Init /\ [][HTTPNext]_vars

\* The connections arrive in order: c is the next one for Accept or for the
\* HTTP server.
Arrived(c) == c = "c2" => pc["c1"][0] # "new"

\* The accept loop and the connections it hands to ServeConn: connections
\* are accepted one after the other, each is rejected or served.
AcceptNext ==
    \/ serveListener
    \/ \E c \in Conns : Arrived(c) /\ Accept(c)
    \/ \E c \in Conns : ServeConnLoop(c)
    \/ \E c \in Conns : readRequestHeader(c)
    \/ \E c \in Conns : readRequest(c)
    \/ \E c \in Conns : ServeConnDispatch(c)
    \/ \E c \in Conns : ServeConnPut(c)
    \/ \E c \in Conns : ServeConnClose(c)
    \/ \E c \in Conns, i \in Tasks : Call(c, i)
    \/ \E c \in Conns, i \in Procs : sendResponse(c, i)
    \/ \E c \in Conns, i \in Procs : writeHeader(c, i)
    \/ \E c \in Conns, i \in Procs : writeBody(c, i)
    \/ \E c \in Conns, i \in Tasks : CallDone(c, i)

AcceptSpec == Init /\ [][AcceptNext]_vars

(* ------------------------------------------------------------------ *)
(* Names, paths and slices                                             *)
(* ------------------------------------------------------------------ *)

\* A string is a sequence of characters. The byte of a character.
Byte(ch) ==
    CASE ch = " " -> 32
      [] ch = "-" -> 45 [] ch = "." -> 46 [] ch = "/" -> 47
      [] ch = "0" -> 48 [] ch = "1" -> 49 [] ch = "9" -> 57 [] ch = ":" -> 58
      [] ch = "@" -> 64
      [] ch = "A" -> 65 [] ch = "D" -> 68 [] ch = "M" -> 77 [] ch = "Z" -> 90
      [] ch = "[" -> 91
      [] ch = "_" -> 95
      [] ch = "a" -> 97 [] ch = "b" -> 98 [] ch = "d" -> 100
      [] ch = "m" -> 109 [] ch = "v" -> 118 [] ch = "z" -> 122
      [] ch = "{" -> 123

IsUpper(ch) == Byte(ch) >= 65 /\ Byte(ch) <= 90
IsLower(ch) == Byte(ch) >= 97 /\ Byte(ch) <= 122
IsDigit(ch) == Byte(ch) >= 48 /\ Byte(ch) <= 57

\* strings.ToLower on the characters in use.
ToLower(ch) ==
    CASE ch = "A" -> "a" [] ch = "D" -> "d" [] ch = "M" -> "m" [] OTHER -> ch

\* A CheckSname whose pattern lacks the anchors: it matches in any name.
CheckSnameUnanchored(sname) == Len(sname) >= 0

\* common.CheckSname: nameRegexp ^[a-zA-Z0-9_\.\-]*$ matches the name.
CheckSname(sname) ==
    \A i \in 1..Len(sname) :
        \/ IsLower(sname[i]) \/ IsUpper(sname[i]) \/ IsDigit(sname[i])
        \/ sname[i] \in {"_", ".", "-"}

\* The loop of common.SnakeString from index i on; j is its flag.
RECURSIVE SnakeFrom(_, _, _)
SnakeFrom(str, i, j) ==
    IF i > Len(str) THEN <<>>
    ELSE LET d == str[i]
             sep == IF i > 1 /\ IsUpper(d) /\ j THEN <<"_">> ELSE <<>>
         IN  sep \o <<ToLower(d)>> \o SnakeFrom(str, i + 1, j \/ d # "_")

\* common.SnakeString: XxYy to xx_yy.
SnakeString(str) == SnakeFrom(str, 1, FALSE)

\* sort.Strings compares strings byte by byte.
RECURSIVE StringLess(_, _)
StringLess(a, b) ==
    IF b = <<>> THEN FALSE
    ELSE IF a = <<>> THEN TRUE
    ELSE IF Byte(Head(a)) # Byte(Head(b)) THEN Byte(Head(a)) < Byte(Head(b))
    ELSE StringLess(Tail(a), Tail(b))

\* sort.Strings: insertion of x into a sorted list.
RECURSIVE SortedInsert(_, _)
SortedInsert(list, x) ==
    IF list = <<>> THEN <<x>>
    ELSE IF StringLess(x, Head(list)) THEN <<x>> \o list
    ELSE <<Head(list)>> \o SortedInsert(Tail(list), x)

\* sort.Strings(list)
RECURSIVE SortStrings(_)
SortStrings(list) ==
    IF list = <<>> THEN <<>>
    ELSE SortedInsert(SortStrings(Tail(list)), Head(list))

\* IServiceBuilder.URIEncode of the URL format: "/" and the normalised
\* segment, for every segment.
RECURSIVE URIEncode(_)
URIEncode(segments) ==
    IF segments = <<>> THEN <<>>
    ELSE <<"/">> \o SnakeString(Head(segments)) \o URIEncode(Tail(segments))

\* A Go slice of strings: the backing array heap[ptr] (ptr 0 is nil), the
\* length and the capacity.
NilSlice == [ptr |-> 0, len |-> 0, cap |-> 0]

\* The elements of slice sl in heap h.
Elems(h, sl) == [i \in 1..sl.len |-> h[sl.ptr][i]]

\* The capacity the runtime gives the array of a slice that append grows.
GrowCap(old, needed) == IF needed > 2 * old THEN needed ELSE 2 * old

\* append(sl, x) in heap h: in place when the capacity allows, else into a
\* new array. The result is the heap and the slice returned.
GoAppend(h, sl, x) ==
    IF sl.len < sl.cap
    THEN [heap |-> [h EXCEPT ![sl.ptr][sl.len + 1] = x],
          slice |-> [sl EXCEPT !.len = sl.len + 1]]
    ELSE LET c == GrowCap(sl.cap, sl.len + 1)
             arr == [i \in 1..c |->
                        IF i <= sl.len THEN h[sl.ptr][i]
                        ELSE IF i = sl.len + 1 THEN x ELSE <<>>]
         IN  [heap |-> Append(h, arr),
              slice |-> [ptr |-> Len(h) + 1, len |-> sl.len + 1, cap |-> c]]

(* ------------------------------------------------------------------ *)
(* Plugins, groups and registration                                    *)
(* ------------------------------------------------------------------ *)

\* Bounds: the groups created, the routers registered before another
\* registration is started.
MaxGroups == 2
MaxRouters == 2

\* The plugins in use: "auth" implements the register hook, "trace" the
\* connection-level hook PostConnAccept.
Plugins == {"auth", "trace"}
RegisterPlugins == {"auth"}
ConnPlugins == {"trace"}

\* The plugins added to the server-wide container, the plugin lists handed
\* to Group.
ServerPlugins == {"auth"}
PluginArgs == {<<>>, <<"auth">>, <<"trace", "auth">>}

\* The names handed to Group and NamedRegister.
Names == {<<"b">>, <<"a">>, <<"a", "/">>}

\* The receivers: a type name and the names of its qualifying methods, in
\* the order of the method set.
Arith == [type |-> <<"A">>, methods |-> << <<"D">>, <<"M">> >>]
Ping == [type |-> <<"D">>, methods |-> << <<"M">> >>]
Empty == [type |-> <<"M">>, methods |-> <<>>]
Receivers == {Arith, Ping, Empty}

\* The metadata handed to Register, the values handed to SetBaseMetadata.
MetadataArgs == {<<"m">>}
BaseMetadataArgs == {"base"}

\* common.ObjectName of a receiver.
ObjectName(rcvr) == rcvr.type

\* Server.SetBaseMetadata
SetBaseMetadata ==
    /\ ~fatal
    /\ \E metadata \in BaseMetadataArgs :
          /\ baseMetadata # metadata
          /\ baseMetadata' = metadata
    /\ UNCHANGED <<connVars, httpVars, entryVars, PluginContainer, serviceMap, routers,
                   heap, groups, fatal, hooks, last>>

\* Server.PluginContainer.Add(plugin): a plugin goes into the server-wide
\* container.
AddPlugin ==
    /\ ~fatal
    /\ \E pl \in ServerPlugins :
          /\ \A i \in 1..Len(PluginContainer) : PluginContainer[i] # pl
          /\ PluginContainer' = Append(PluginContainer, pl)
    /\ UNCHANGED <<connVars, httpVars, entryVars, serviceMap, routers, baseMetadata,
                   heap, groups, fatal, hooks, last>>

\* The group Server.Group starts from: &ServiceGroup{server: server}.
RootGroup == [prefixes |-> NilSlice, plugins |-> <<>>]

\* Group g; group 0 is the server itself.
GroupAt(g) == IF g = 0 THEN RootGroup ELSE groups[g]

\* The prefix list of group g, read now.
Prefixes(g) == Elems(heap, GroupAt(g).prefixes)

\* PluginContainer.Add: the plugins go to the end of the container, in
\* their order.
Add(container, plugins) == container \o plugins

\* A Group whose container holds the new plugins before the inherited ones.
GroupPluginsNewFirst(parentPlugins, plugins) ==
    Add(Add(<<>>, plugins), parentPlugins)

\* The plugins of the container Group builds: a new container, then
\* p.Add(the plugins of the parent), then p.Add(the plugins given).
GroupPlugins(parentPlugins, plugins) ==
    Add(Add(<<>>, parentPlugins), plugins)

\* Server.Group and ServiceGroup.Group on parent g: the check of the prefix,
\* the container (Add can refuse the new plugins), the prefix list. The
\* calls made are bounded by the number of groups, the prefixes and the
\* plugin lists given.
GroupIn(maxGroups, prefixArgs, pluginArgs) ==
    /\ ~fatal
    /\ Len(groups) < maxGroups
    /\ \E g \in 0..Len(groups), prefix \in prefixArgs, plugins \in pluginArgs,
          addOk \in BOOLEAN :
          LET this == [op |-> "Group", parent |-> g, prefix |-> prefix,
                       plugins |-> plugins,
                       parentPrefixes |-> Prefixes(g),
                       parentPlugins |-> GroupAt(g).plugins]
          IN  IF ~CheckSname(prefix) \/ (plugins # <<>> /\ ~addOk)
              THEN /\ fatal' = TRUE
                   /\ last' = this
                   /\ UNCHANGED <<heap, groups>>
              ELSE \E ap \in {GoAppend(heap, GroupAt(g).prefixes, prefix)} :
                   /\ heap' = ap.heap
                   /\ groups' = Append(groups,
                                   [prefixes |-> ap.slice,
                                    plugins |-> GroupPlugins(GroupAt(g).plugins,
                                                             plugins)])
                   /\ last' = this
                   /\ fatal' = fatal
    /\ UNCHANGED <<connVars, httpVars, entryVars, PluginContainer, serviceMap, routers,
                   baseMetadata, hooks>>

Group == GroupIn(MaxGroups, Names, PluginArgs)

\* IServiceBuilder.NewServices: one Service per qualifying method of the
\* receiver, its path built from the path segments and the method name.
NewServices(rcvr, pathSegments) ==
    [i \in 1..Len(rcvr.methods) |->
        [path |-> URIEncode(Append(pathSegments, rcvr.methods[i])),
         rcvr |-> rcvr.type, method |-> rcvr.methods[i], plugins |-> <<>>]]

\* A container can refuse a registration when one of its plugins implements
\* the register hook (doRegister returns the first error of its plugins).
CanRefuse(container) ==
    \E i \in 1..Len(container) : container[i] \in RegisterPlugins

\* A register that looks for no duplicate.
presentNever(map, spath) == FALSE

\* register: the test of the service map for the path.
present(map, spath) == spath \in DOMAIN map

\* A register that skips the scoped hook after a refusal of the server-wide
\* hook.
registerHooksStopAtRefusal(refused) ==
    IF "server" \in refused THEN <<"server">> ELSE <<"server", "scoped">>

\* register: the containers whose register hook it runs for one path, in
\* order, whatever they answer.
registerHooks(refused) == <<"server", "scoped">>

\* The errors register collects from the hooks it ran for spath.
HookErrors(called, refused, spath) ==
    LET sel == SelectSeq(called, LAMBDA k : k \in refused)
    IN  [i \in 1..Len(sel) |-> [err |-> sel[i], path |-> spath]]

\* One round of the loop of register, for one service; st is the state of
\* the loop: errs, metadata, the hooks run, routers, serviceMap.
registerOne(st, service, p, refused) ==
    LET spath == service.path
        errs1 == IF present(st.serviceMap, spath)
                 THEN Append(st.errs, [err |-> "ErrServiceAlreadyExists",
                                       path |-> spath])
                 ELSE st.errs
        md == Append(st.metadata, baseMetadata)
        called == registerHooks(refused)
    IN  [errs |-> errs1 \o HookErrors(called, refused, spath),
         metadata |-> md,
         hooks |-> st.hooks \o [i \in 1..Len(called) |->
                                  [container |-> called[i], path |-> spath,
                                   metadata |-> md]],
         routers |-> Append(st.routers, spath),
         serviceMap |-> (spath :> [service EXCEPT !.plugins = p])
                            @@ st.serviceMap]

\* The loop of register from service i on.
RECURSIVE registerLoop(_, _, _, _, _)
registerLoop(services, i, st, p, refuse) ==
    IF i > Len(services) THEN st
    ELSE registerLoop(services, i + 1,
                      registerOne(st, services[i], p, refuse[i]), p, refuse)

\* A register that leaves the routers as appended.
registerNoSort(list) == list

\* register: the sort of the routers after the loop.
registerSort(list) == SortStrings(list)

\* Server.register under Server.mu: fatal without services, else the loop
\* over the services, then fatal when an error was collected, else the sort.
register(pathSegments, rcvr, p, metadata, refuse) ==
    LET services == NewServices(rcvr, pathSegments)
        st == registerLoop(services, 1,
                           [errs |-> <<>>, metadata |-> metadata,
                            hooks |-> <<>>, routers |-> routers,
                            serviceMap |-> serviceMap], p, refuse)
    IN  IF Len(services) = 0
        THEN [fatal |-> TRUE, errs |-> <<>>, hooks |-> <<>>, paths |-> <<>>,
              routers |-> routers, serviceMap |-> serviceMap]
        ELSE [fatal |-> Len(st.errs) > 0, errs |-> st.errs, hooks |-> st.hooks,
              paths |-> [i \in 1..Len(services) |-> services[i].path],
              routers |-> IF Len(st.errs) > 0 THEN st.routers
                          ELSE registerSort(st.routers),
              serviceMap |-> st.serviceMap]

\* The refusals the hooks of this registration can answer with: refuse[i] is
\* the set of containers that refuse path i.
Refusals(rcvr, p) ==
    {f \in [1..2 -> SUBSET {"server", "scoped"}] :
        \A i \in 1..2 :
            /\ i > Len(rcvr.methods) => f[i] = {}
            /\ "server" \in f[i] => CanRefuse(PluginContainer)
            /\ "scoped" \in f[i] => CanRefuse(p)}

\* A register that does not take Server.mu.
registerNoLock == TRUE

\* register starts with server.mu.Lock(): it waits while close holds it.
registerEnabled == ~muHeld

\* Register and NamedRegister of the server (g = 0) or of group g: the name
\* is the type name or the name given, it is checked, the scoped container
\* is built (empty for the server, a copy of the plugins of the group), the
\* path segments are []string{name} or append(group.prefixes, name), and
\* register runs.
NamedRegister ==
    /\ ~fatal
    /\ registerEnabled
    /\ Len(routers) < MaxRouters
    /\ \E g \in 0..Len(groups), rcvr \in Receivers, metadata \in MetadataArgs :
       \E name \in Names \cup {ObjectName(rcvr)} :
          IF ~CheckSname(name)
          THEN /\ fatal' = TRUE
               /\ last' = [op |-> "RegisterBadName", level |-> g, name |-> name]
               /\ UNCHANGED <<heap, serviceMap, routers, hooks>>
          ELSE \E ap \in {GoAppend(heap, GroupAt(g).prefixes, name)} :
               \E refuse \in Refusals(rcvr, GroupAt(g).plugins) :
               \E r \in {register(IF g = 0 THEN <<name>>
                                   ELSE Elems(ap.heap, ap.slice),
                                   rcvr, GroupAt(g).plugins, metadata, refuse)} :
                  /\ heap' = IF g > 0 /\ ap.slice.ptr = GroupAt(g).prefixes.ptr
                             THEN ap.heap ELSE heap
                  /\ fatal' = r.fatal
                  /\ serviceMap' = r.serviceMap
                  /\ routers' = r.routers
                  /\ hooks' = r.hooks
                  /\ last' = [op |-> "Register", level |-> g, name |-> name,
                              rcvr |-> rcvr, metadata |-> metadata,
                              base |-> baseMetadata, refuse |-> refuse,
                              running |-> running,
                              paths |-> r.paths, errs |-> r.errs,
                              dups |-> {i \in 1..Len(r.paths) :
                                           r.paths[i] \in DOMAIN serviceMap}]
    /\ UNCHANGED <<connVars, httpVars, entryVars, PluginContainer, baseMetadata, groups>>

\* The registry and the groups of a server, its listener and its shutdown;
\* after log.Fatal the process has exited.
RegNext ==
    \/ SetBaseMetadata
    \/ AddPlugin
    \/ Group
    \/ NamedRegister

RegSpec == Init /\ [][RegNext]_vars

\* Groups and registration on a server that is started and shut down: Group
\* and Register can be called at any time; after log.Fatal the process has
\* exited.
ServeRegNext ==
    \/ Group
    \/ NamedRegister
    \/ (~fatal /\ serveListener)
    \/ (~fatal /\ closeBegin)
    \/ (~fatal /\ closeWaiter)
    \/ (~fatal /\ closeDrained)
    \/ (~fatal /\ closeTimeout)

ServeRegSpec == Init /\ [][ServeRegNext]_vars

\* Bound: the groups created where chains of groups are followed.
MaxDeepGroups == 5

\* The prefixes of those groups.
DeepNames == {<<"a">>, <<"b">>}

\* Group called for groups of any depth, and for several groups of one
\* parent.
DeepGroup == GroupIn(MaxDeepGroups, DeepNames, {<<>>, <<"auth">>})

DeepNext ==
    \/ DeepGroup

\* Chains of groups and groups of one parent.
DeepSpec == Init /\ [][DeepNext]_vars

\* Bound: the length of the names handed to CheckSname.
MaxNameLen == 2

\* The characters of those names: letters and digits at the ends of their
\* ranges, the three punctuation marks of the class, and the characters next
\* to the ranges in byte order.
NameAlphabet ==
    {"a", "z", "A", "Z", "0", "9", ".", "-", "_",
     " ", "/", ":", "@", "[", "{"}

\* The strings over NameAlphabet of length n.
RECURSIVE NamesOfLen(_)
NamesOfLen(n) ==
    IF n = 0 THEN {<<>>}
    ELSE {Append(s, ch) : s \in NamesOfLen(n - 1), ch \in NameAlphabet}

NameInputs == UNION {NamesOfLen(n) : n \in 0..MaxNameLen}

\* common.CheckSname called on a name, before the first Group or Register
\* call: err == nil is recorded.
CheckName ==
    /\ ~fatal
    /\ last = NoCall
    /\ \E sname \in NameInputs :
          last' = [op |-> "CheckSname", name |-> sname, ok |-> CheckSname(sname)]
    /\ UNCHANGED <<connVars, httpVars, entryVars, PluginContainer, serviceMap, routers,
                   baseMetadata, heap, groups, fatal, hooks>>

NameNext ==
    \/ CheckName
    \/ Group
    \/ NamedRegister

\* The check of names, alone and in Group and NamedRegister.
NameSpec == Init /\ [][NameNext]_vars

(* ------------------------------------------------------------------ *)
(* Properties                                                          *)
(* ------------------------------------------------------------------ *)

Parts(c) == 1..Len(out[c])

\* The complete responses written to c for request i (a response is complete
\* when its body is on the wire).
Responses(c, i) == {k \in Parts(c) : out[c][k].part = "B" /\ out[c][k].req = i}

Responded(c, i) == Responses(c, i) # {}

\* The header of the response whose body is part k.
HeaderOf(c, k) == out[c][k - 1]

\* C1: every response written on a connection carries the seq and the
\* service method of the request it answers.
C1_ResponseMirrorsRequest ==
    \A c \in Conns : \A k \in Parts(c) :
        out[c][k].part = "H" =>
            /\ out[c][k].seq = reqs[c][out[c][k].req].seq
            /\ out[c][k].method = reqs[c][out[c][k].req].method

\* C1 witness: two calls were answered, the second through a context that came
\* back from the pool (it still carries the error type of the panicked first
\* call).
C1_Witness ==
    \E c \in Conns :
        /\ Responded(c, 1) /\ Responded(c, 2)
        /\ outcome[c][1] = "panic" /\ outcome[c][2] = "ok"
        /\ pc[c][2] = "put"
        /\ ctx[c][2].rpcErrorType = ErrorTypeServerServicePanic

\* No part of another frame stands between the header and the body of a frame.
WellFramed(c) ==
    \A k \in Parts(c) :
        /\ out[c][k].part = "B" =>
              k > 1 /\ out[c][k - 1].part = "H" /\ out[c][k - 1].req = out[c][k].req
        /\ (out[c][k].part = "H" /\ k < Len(out[c])) =>
              out[c][k + 1].part = "B" /\ out[c][k + 1].req = out[c][k].req

\* C2: on every connection at most one process is writing a response at any
\* moment, every write happens under the send mutex of the connection, and the
\* response stream is a sequence of frames that are never interleaved.
C2_WritesSerialised ==
    \A c \in Conns :
        /\ Cardinality(sending[c]) <= 1
        /\ \A i \in Procs : pc[c][i] \in {"whdr", "wbody"} => i \in sending[c]
        /\ WellFramed(c)

\* C2 witness: one process is in the middle of a frame while another one of
\* the same connection waits for the mutex.
C2_Witness ==
    \E c \in Conns : \E i, j \in Procs :
        i # j /\ pc[c][i] = "wbody" /\ pc[c][j] = "send"

\* A call that was dispatched and has not finished its write.
InFlight(c, i) == pc[c][i] \in {"invoke", "send", "whdr", "wbody"}

\* C3: when close returns nil, every call that had entered the invoker before
\* that close began has written its response.
C3_NilAfterCallsAnswered ==
    (sd.pc = "returned" /\ sd.result = "nil") =>
        \A t \in sd.before : Responded(t[1], t[2])

\* C4: when close returns the timeout error, no call decoded before it is cut
\* off: its connection is not closed while the call is in flight, and once the
\* call has finished its response is on the connection.
C4_TimeoutLeavesCallsServed ==
    (sd.pc = "returned" /\ sd.result = "timeout") =>
        \A t \in sd.before :
            /\ InFlight(t[1], t[2]) => ~closed[t[1]]
            /\ pc[t[1]][t[2]] = "done" => Responded(t[1], t[2])

\* C5: a call whose invoker panicked and that has returned has exactly one
\* response on its connection, carrying the error "Service Panic!".
C5_PanicAnsweredOnce ==
    \A c \in Conns : \A i \in Tasks :
        (outcome[c][i] = "panic" /\ pc[c][i] = "done") =>
            /\ Cardinality(Responses(c, i)) = 1
            /\ \A k \in Responses(c, i) : HeaderOf(c, k).error = ServicePanic

Frames(c) == 1..Len(reqs[c])

\* The error readRequest returns for a frame it keeps reading after.
ReadError(kind) ==
    IF kind = "badbody" THEN BodyError(kind) ELSE HeaderResult(kind).err

\* The reader has finished the sendResponse of frame i.
ReaderPastSend(c, i) ==
    i < Len(reqs[c]) \/ pc[c][0] \in {"put", "loop", "reading", "close", "done"}

\* C6: for a frame read with keepReading, no notSend and an error, the reader
\* writes exactly one error response with that error text and the seq of the
\* request, spawns no call task, does not close the connection and goes back
\* to the head of its loop (which it leaves only when the server has stopped).
C6_ReaderErrorResponse ==
    \A c \in Conns : \A i \in Frames(c) :
        reqs[c][i].kind \in {"unknown", "badbody"} =>
            /\ pc[c][i] = "none"
            /\ Cardinality(Responses(c, i)) <= 1
            /\ ReaderPastSend(c, i) =>
                  /\ Cardinality(Responses(c, i)) = 1
                  /\ \A k \in Responses(c, i) :
                        /\ HeaderOf(c, k).error = ReadError(reqs[c][i].kind)
                        /\ HeaderOf(c, k).seq = reqs[c][i].seq
                        /\ out[c][k].body = invalidRequest
            /\ (i = Len(reqs[c]) /\ pc[c][0] # "done") => ~closed[c]
            /\ (i = Len(reqs[c]) /\ pc[c][0] \in {"close", "done"}) => ~running

\* C6 witness: an unknown method and an undecodable body were both answered
\* and the reader is waiting for the next header.
C6_Witness ==
    \E c \in Conns :
        /\ Len(reqs[c]) = 2
        /\ reqs[c][1].kind = "unknown" /\ reqs[c][2].kind = "badbody"
        /\ Responded(c, 1) /\ Responded(c, 2)
        /\ pc[c][0] = "reading"

\* The reader of c waits for a header and no call of c is in progress.
Quiet(c) ==
    /\ pc[c][0] = "reading"
    /\ \A i \in Tasks : pc[c][i] \in {"none", "done"}

\* C7: for a frame vetoed with notSend the server writes nothing, spawns no
\* call and goes back to the head of its loop; so once all calls of a
\* connection are done the number of responses on it is the number of frames
\* that were not vetoed (5 of 10 when every other call is vetoed).
C7_VetoIsSilent ==
    \A c \in Conns :
        /\ \A i \in Frames(c) :
              reqs[c][i].kind = "veto" =>
                  /\ pc[c][i] = "none"
                  /\ \A k \in Parts(c) : out[c][k].req # i
                  /\ (i = Len(reqs[c]) /\ pc[c][0] # "done") => ~closed[c]
                  /\ (i = Len(reqs[c]) /\ pc[c][0] \in {"close", "done"}) => ~running
        /\ Quiet(c) =>
              Cardinality({k \in Parts(c) : out[c][k].part = "B"})
                  = Cardinality({i \in Frames(c) : reqs[c][i].kind # "veto"})

\* C7 witness: of two calls the second was vetoed; one response is on the
\* wire and the reader waits for the next header.
C7_Witness ==
    \E c \in Conns :
        /\ Len(reqs[c]) = 2
        /\ reqs[c][1].kind = "call" /\ reqs[c][2].kind = "veto"
        /\ Quiet(c)
        /\ Len(out[c]) = 2

\* The last read of the reader of c ended the stream (EOF or corrupt frame).
StreamEnded(c) ==
    Len(reqs[c]) > 0 /\ reqs[c][Len(reqs[c])].kind \in EndKinds

C8_Safe ==
    \A c \in Conns : \A i \in Frames(c) :
        reqs[c][i].kind \in EndKinds =>
            /\ i = Len(reqs[c])
            /\ lastSink[c] = "none"
            /\ \A k \in Parts(c) : out[c][k].req # i
            /\ pc[c][0] \in {"header", "read", "put", "close", "done"}
            /\ pc[c][0] = "done" => closed[c]

\* The scheduler runs a reader that can take a step that does not block.
FairSpec ==
    /\ Spec
    /\ \A c \in Conns :
          WF_vars(readRequest(c) \/ ServeConnDispatch(c) \/ ServeConnPut(c)
                  \/ ServeConnClose(c))

\* C8: after a read that returns keepReading = false the reader writes no
\* response for it, reads no body and no further header, and the connection
\* is eventually closed and the reader terminated.
C8_EndOfStream ==
    /\ []C8_Safe
    /\ \A c \in Conns : StreamEnded(c) ~> (closed[c] /\ pc[c][0] = "done")

\* C8 witness: the reader terminated on EOF after a first request, with the
\* connection closed.
C8_Witness ==
    \E c \in Conns :
        /\ Len(reqs[c]) = 2 /\ reqs[c][2].kind = "eof"
        /\ pc[c][0] = "done" /\ closed[c]

\* C9: every frame is read as what the peer sent (the stream stays framed):
\* a header read that keeps reading is followed by exactly one body read
\* before the next header read, into the argument when the service was
\* resolved and into the nil sink when the header step failed.
C9_StreamStaysFramed ==
    \A c \in Conns :
        /\ \A i \in Frames(c) : reqs[c][i].kind = reqs[c][i].sent
        /\ pc[c][0] = "reading" => framing[c] = "header"
        /\ (pc[c][0] = "header" /\ rr[c].keepReading) =>
              framing[c] = "body" /\ lastSink[c] = "none"
        /\ (pc[c][0] = "read" /\ rr[c].keepReading) =>
              /\ framing[c] = "header"
              /\ lastSink[c] = IF reqs[c][Len(reqs[c])].kind \in CallKinds
                               THEN "argv" ELSE "nil"

\* C9 witness: after the body of an unknown method was discarded, the next
\* request was decoded into its argument.
C9_Witness ==
    \E c \in Conns :
        /\ Len(reqs[c]) = 2
        /\ reqs[c][1].kind = "unknown" /\ reqs[c][2].kind = "call"
        /\ pc[c][0] = "read" /\ lastSink[c] = "argv"

\* Call i of c has left the invoker and still holds its context.
AfterInvoke(c, i) == pc[c][i] \in {"send", "whdr", "wbody", "put"}

\* A connection is closed only after its stream ended or the server stopped,
\* never because an invocation failed.
ClosedOnlyAtEnd == \A c \in Conns : closed[c] => (StreamEnded(c) \/ ~running)

\* C10 as claimed: the response of every failed call has the sentinel body
\* and the error string in its header; the response of every successful call
\* has the reply as body and an empty header error.
C10_Original ==
    /\ ClosedOnlyAtEnd
    /\ \A c \in Conns : \A i \in Tasks :
          (outcome[c][i] \in Failures /\ AfterInvoke(c, i)) =>
              ctx[c][i].rpcErrorType = ErrorTypeServerService
    /\ \A c \in Conns : \A i \in Tasks : \A k \in Responses(c, i) :
          /\ outcome[c][i] \in Failures =>
                /\ HeaderOf(c, k).error = ErrorText(outcome[c][i])
                /\ out[c][k].body = invalidRequest
          /\ outcome[c][i] = "ok" =>
                /\ HeaderOf(c, k).error = ""
                /\ out[c][k].body = Interface(ReplyOf(reqs[c][i].seq))

\* C10 amended: a call that failed with a non-empty error string has the
\* error type server-service and its response has the sentinel body and that
\* string in its header; the response of a call that succeeded has the reply
\* as body and an empty header error; no failure closes the connection.
C10_ErrorResponse ==
    /\ ClosedOnlyAtEnd
    /\ \A c \in Conns : \A i \in Tasks :
          (outcome[c][i] = "fail" /\ AfterInvoke(c, i)) =>
              ctx[c][i].rpcErrorType = ErrorTypeServerService
    /\ \A c \in Conns : \A i \in Tasks : \A k \in Responses(c, i) :
          /\ outcome[c][i] = "fail" =>
                /\ HeaderOf(c, k).error = ErrorText("fail")
                /\ out[c][k].body = invalidRequest
          /\ outcome[c][i] = "ok" =>
                /\ HeaderOf(c, k).error = ""
                /\ out[c][k].body = Interface(ReplyOf(reqs[c][i].seq))

\* C10 witness: a call that failed with an error string and one that
\* succeeded were both answered on an open connection.
C10_Witness ==
    \E c \in Conns :
        /\ outcome[c][1] = "fail" /\ outcome[c][2] = "ok"
        /\ Responded(c, 1) /\ Responded(c, 2)
        /\ ~closed[c]

\* C11: after a CONNECT on the RPC path that is hijacked and accepted, the
\* handshake line "HTTP/1.0 200 Connected to Go RPC" and an empty line are on
\* the stream and the stream is served like a normal connection: its reader
\* leaves its loop only when the stream has ended or a shutdown was asked for.
C11_ConnectThenRPC ==
    \A c \in Conns :
        (web[c].method = "CONNECT" /\ web[c].postConnAccept = "accepted") =>
            /\ web[c].hijacked
            /\ web[c].line = "HTTP/1.0 200 Connected to Go RPC\n\n"
            /\ pc[c][0] \in {"close", "done"} =>
                  (StreamEnded(c) \/ sd.pc # "idle")

\* C12: a request on the RPC path whose method is not CONNECT is answered
\* with status 405, Content-Type "text/plain; charset=utf-8" and body
\* "405 must CONNECT\n"; the stream is not hijacked, no hook runs and nothing
\* of the RPC protocol is read from it or written to it.
C12_NotConnectIs405 ==
    \A c \in Conns :
        web[c].method \notin {"", "CONNECT"} =>
            /\ web[c].w.status = 405
            /\ web[c].w.sent = "text/plain; charset=utf-8"
            /\ web[c].w.body = "405 must CONNECT\n"
            /\ ~web[c].hijacked
            /\ web[c].postConnAccept = "none"
            /\ web[c].line = ""
            /\ reqs[c] = <<>> /\ out[c] = <<>>
            /\ pc[c][0] = "http"
            /\ ctx[c][0] = NoContext

\* C12 witness: a POST on the RPC path was answered 405 while the server was
\* also serving its own listener.
C12_Witness ==
    \E c \in Conns :
        /\ web[c].method = "POST" /\ web[c].w.status = 405
        /\ running

\* The paths in the routers list.
RoutersSet == {routers[i] : i \in 1..Len(routers)}

\* C13: after every registration that completes (no fatal error) the routers
\* list is strictly increasing in byte order (sorted, no path twice) and
\* holds exactly the keys of the service map, each key mapped to the one
\* Service of that path.
C13_RoutersSorted ==
    ~fatal =>
        /\ \A i \in 1..(Len(routers) - 1) : StringLess(routers[i], routers[i + 1])
        /\ RoutersSet = DOMAIN serviceMap
        /\ \A spath \in DOMAIN serviceMap : serviceMap[spath].path = spath

\* C13 witness: a registration under a group completed after one at server
\* level, and its paths were sorted in front of the earlier one.
C13_Witness ==
    /\ ~fatal /\ last.op = "Register" /\ last.level > 0
    /\ Len(routers) = 3 /\ Len(last.paths) = 2
    /\ routers[1] = last.paths[1] /\ routers[2] = last.paths[2]

\* A registration whose receiver builds a path that is already registered
\* ends fatally, with the error of that path.
C14_Fatal ==
    (last.op = "Register" /\ last.dups # {}) =>
        /\ fatal
        /\ \A i \in last.dups : \E k \in 1..Len(last.errs) :
              last.errs[k] = [err |-> "ErrServiceAlreadyExists",
                              path |-> last.paths[i]]

\* A step after which the server goes on keeps every registered Service
\* and lists no path twice.
C14_Kept ==
    ~fatal' =>
        /\ \A spath \in DOMAIN serviceMap :
              spath \in DOMAIN serviceMap' /\ serviceMap'[spath] = serviceMap[spath]
        /\ \A i, j \in 1..Len(routers') : routers'[i] = routers'[j] => i = j

\* C14: registering a receiver whose builder produces a path already in the
\* registry is fatal on that registration; the server never goes on with the
\* earlier Service replaced or the path listed twice.
C14_DuplicateIsFatal == []C14_Fatal /\ [][C14_Kept]_vars

\* C14 witness: a registration ended fatally for a duplicate path alone.
C14_Witness ==
    /\ fatal /\ last.op = "Register" /\ last.dups # {}
    /\ \A i \in 1..2 : last.refuse[i] = {}

\* The errors a registration has to report for its paths from i on: for each
\* path the duplicate, the refusal of the server-wide hook, the refusal of
\* the scoped hook.
RECURSIVE ErrorsDue(_)
ErrorsDue(i) ==
    IF i > Len(last.paths) THEN <<>>
    ELSE (IF i \in last.dups
          THEN <<[err |-> "ErrServiceAlreadyExists", path |-> last.paths[i]]>>
          ELSE <<>>)
         \o (IF "server" \in last.refuse[i]
             THEN <<[err |-> "server", path |-> last.paths[i]]>> ELSE <<>>)
         \o (IF "scoped" \in last.refuse[i]
             THEN <<[err |-> "scoped", path |-> last.paths[i]]>> ELSE <<>>)
         \o ErrorsDue(i + 1)

\* C15: a registration goes through every Service built from the receiver:
\* for each it checks for a duplicate, runs the server-wide hook and the
\* scoped hook whatever the first answered, and registers the path; all the
\* errors are collected, and the registration is fatal iff there is one.
C15_AllPathsProcessed ==
    last.op = "Register" =>
        IF Len(last.paths) = 0 THEN fatal
        ELSE /\ Len(hooks) = 2 * Len(last.paths)
             /\ \A i \in 1..Len(last.paths) :
                   /\ hooks[2 * i - 1].container = "server"
                   /\ hooks[2 * i - 1].path = last.paths[i]
                   /\ hooks[2 * i].container = "scoped"
                   /\ hooks[2 * i].path = last.paths[i]
                   /\ last.paths[i] \in DOMAIN serviceMap
                   /\ last.paths[i] \in RoutersSet
             /\ last.errs = ErrorsDue(1)
             /\ fatal <=> (last.errs # <<>>)

\* C15 witness: both hooks refused the first of two paths and the second
\* path, a duplicate, was still checked: three errors in one fatal report.
C15_Witness ==
    /\ fatal /\ last.op = "Register" /\ Len(last.paths) = 2
    /\ last.refuse[1] = {"server", "scoped"}
    /\ last.dups = {2}
    /\ Len(last.errs) = 3

\* C16: for every service path of a registration, the first and the later
\* ones, the register hook runs on the server-wide container and then on the
\* scoped one, both with the metadata of the caller followed by the base
\* metadata of the server.
C16_HookMetadata ==
    last.op = "Register" =>
        \A k \in 1..Len(hooks) :
            /\ hooks[k].metadata = Append(last.metadata, last.base)
            /\ hooks[k].container = IF k % 2 = 1 THEN "server" ELSE "scoped"

\* C20: the group Group returns has the prefix list of its parent followed
\* by the new prefix, and the plugins of its parent, in their order, followed
\* by the plugins given, in their order, connection-level ones included.
C20_GroupExtendsParent ==
    (last.op = "Group" /\ ~fatal) =>
        /\ Prefixes(Len(groups)) = Append(last.parentPrefixes, last.prefix)
        /\ groups[Len(groups)].plugins = last.parentPlugins \o last.plugins

\* C20 witness: a group with a connection-level plugin was made under a
\* group that has a prefix and a plugin of its own.
C20_Witness ==
    /\ ~fatal /\ last.op = "Group" /\ last.parent = 1
    /\ last.parentPlugins = <<"auth">>
    /\ last.plugins = <<"trace", "auth">>
    /\ Len(Prefixes(2)) = 2 /\ Prefixes(2)[1] # Prefixes(2)[2]

\* C17: once a shutdown has set running to false (the listener is closed and
\* running is false) no step makes it true again.
C17_RunningOnce == [][(listener = "closed" /\ ~running) => ~running']_vars

\* C18 as claimed: from one running state to the next the service map and
\* the routers list do not change.
C18_Original ==
    [][(running /\ running') => (serviceMap' = serviceMap /\ routers' = routers)]_vars

\* C18 amended: the service map and the routers list change only in a
\* register call that holds Server.mu (so never while close holds it, and
\* never in a step of Serve or of the shutdown); whether the server is running
\* makes no difference to it.
C18_ChangedOnlyByRegister ==
    [][(serviceMap' # serviceMap \/ routers' # routers) =>
          /\ ~muHeld /\ ~muHeld'
          /\ last'.op = "Register"
          /\ running' = running /\ listener' = listener]_vars

\* C18 witness: a registration made while the server was running completed
\* and its paths are in the registry.
C18_Witness ==
    /\ last.op = "Register" /\ last.running /\ ~fatal
    /\ \A i \in 1..Len(last.paths) : last.paths[i] \in DOMAIN serviceMap
    /\ Len(last.paths) = 2

\* C19: the context a reader has when it starts to read a request carries
\* nothing of an earlier call: the headers, the service, the argument, the
\* reply and the error type are zero, the query parameters are empty, the
\* key/value bag is a new one.
C19_ContextIsClean ==
    \A c \in Conns :
        pc[c][0] = "reading" =>
            /\ ctx[c][0].codecConn = c
            /\ ctx[c][0].data = "map"
            /\ ctx[c][0].reqSeq = 0 /\ ctx[c][0].reqMethod = ""
            /\ ctx[c][0].respSeq = 0 /\ ctx[c][0].respMethod = ""
            /\ ctx[c][0].respError = ""
            /\ ctx[c][0].service = "nil"
            /\ ctx[c][0].query \in {"nil", "empty"}
            /\ ctx[c][0].argv = 0 /\ ctx[c][0].replyv = 0
            /\ ctx[c][0].rpcErrorType = ""

\* The character class [A-Za-z0-9._-], on the characters in use.
NameClass ==
    {"a", "b", "d", "m", "v", "z", "A", "D", "M", "Z", "0", "1", "9",
     ".", "-", "_"}

InNameClass(sname) == \A i \in 1..Len(sname) : sname[i] \in NameClass

\* CheckSname accepts a name iff all its characters are in the class.
C21_Accepted ==
    last.op = "CheckSname" => (last.ok <=> InNameClass(last.name))

\* A Group or NamedRegister call with a rejected name ends fatally with no
\* Service built and the registry, the groups and their prefix lists as they
\* were; a NamedRegister call with an accepted name goes on to register.
C21_Abort ==
    /\ last'.op = "Group" /\ ~InNameClass(last'.prefix) =>
          /\ fatal'
          /\ UNCHANGED <<serviceMap, routers, hooks, heap, groups,
                         PluginContainer, baseMetadata>>
    /\ last'.op = "RegisterBadName" =>
          /\ ~InNameClass(last'.name)
          /\ fatal'
          /\ UNCHANGED <<serviceMap, routers, hooks, heap, groups,
                         PluginContainer, baseMetadata>>
    /\ last'.op = "Register" => InNameClass(last'.name)

\* C21: a group prefix or service name is accepted iff every one of its
\* characters is in [A-Za-z0-9._-] (the empty string is accepted); Group and
\* NamedRegister, of the server and of a group, end fatally on a rejected
\* name before any Service is built or any registry state is changed.
C21_NameValidation == []C21_Accepted /\ [][C21_Abort]_vars

\* C21 witness: NamedRegister of a group ended fatally on a rejected name
\* after a registration had filled the registry.
C21_Witness ==
    /\ fatal /\ last.op = "RegisterBadName" /\ last.level > 0
    /\ Len(routers) > 0

\* The reader of c has dispatched frame i.
Dispatched(c, i) == i < Len(reqs[c]) \/ pc[c][0] \notin {"header", "read"}

\* C22: on a connection one reader reads the requests one at a time, in
\* arrival order; a request decoded without error gets exactly one call task,
\* which holds the context of that request, and no other frame gets one; the
\* reader then goes back to the head of its loop and its next steps wait for
\* no call (only for Server.mu and for the peer), and a call that is ready to
\* send waits for no invoker (only for the send mutex): a later request can
\* be answered while an earlier call is still in its invoker.
C22_ReaderDoesNotWait ==
    \A c \in Conns :
        /\ \A i \in Tasks : pc[c][i] \notin {"loop", "reading", "header", "read"}
        /\ \A i \in Frames(c) :
              /\ reqs[c][i].seq = i
              /\ reqs[c][i].kind = "call" => i \in Tasks
              /\ i \in Tasks =>
                    /\ (reqs[c][i].kind = "call" /\ Dispatched(c, i)) =>
                          pc[c][i] # "none"
                    /\ (reqs[c][i].kind # "call" \/ ~Dispatched(c, i)) =>
                          pc[c][i] = "none"
                    /\ InFlight(c, i) =>
                          /\ ctx[c][i].reqSeq = reqs[c][i].seq
                          /\ ctx[c][i].argv = reqs[c][i].seq
        /\ \A i \in Tasks : i > Len(reqs[c]) => pc[c][i] = "none"
        /\ (pc[c][0] = "loop" /\ ~muHeld) => ENABLED ServeConnLoop(c)
        /\ (pc[c][0] = "reading" /\ ~muHeld /\ TotalRequests < MaxReqs) =>
              ENABLED readRequestHeader(c)
        /\ pc[c][0] = "header" => ENABLED readRequest(c)
        /\ pc[c][0] = "read" => ENABLED ServeConnDispatch(c)
        /\ \A i \in Tasks :
              (pc[c][i] = "send" /\ sending[c] = {}) => ENABLED sendResponse(c, i)

\* C22 witness: the second request was read, dispatched and answered while
\* the call of the first one is still in its invoker.
C22_Witness ==
    \E c \in Conns :
        /\ pc[c][1] = "invoke"
        /\ Responded(c, 2) /\ outcome[c][2] = "ok"
        /\ pc[c][2] = "done"
        /\ ~closed[c]

\* The ServeRequest call on c has returned.
Returned(c) == sreq[c].ret \notin {"none", "pending"}

\* C23: a ServeRequest call that returns the error of a stopped server has
\* read nothing and written nothing; any other one has read exactly one
\* frame and served it itself (no call task): when it returns, the one
\* response of that request is on the connection unless the response was
\* suppressed or the framing was unreadable, the context is back in the pool
\* and the in-flight counter is released; it returns nil iff the request was
\* read without error, else the read error; the connection is never closed.
C23_ServeRequest ==
    \A c \in Conns :
        /\ ~closed[c]
        /\ \A i \in Tasks : pc[c][i] = "none"
        /\ Returned(c) =>
              /\ ctx[c][0] = NoContext
              /\ callGroup = 0
              /\ sending[c] = {}
              /\ IF sreq[c].ret = "rpc: server has stopped"
                 THEN /\ Len(reqs[c]) = sreq[c].from
                      /\ Len(out[c]) = sreq[c].outFrom
                 ELSE LET n == Len(reqs[c])
                          kind == reqs[c][n].kind
                      IN  /\ n = sreq[c].from + 1
                          /\ BagCardinality(pool) >= 1
                          /\ sreq[c].ret = "nil" <=> kind = "call"
                          /\ kind # "call" => sreq[c].ret = ReadError(kind)
                          /\ IF kind \in {"veto", "eof", "corrupt"}
                             THEN /\ Len(out[c]) = sreq[c].outFrom
                                  /\ \A k \in Parts(c) : out[c][k].req # n
                             ELSE /\ Len(out[c]) = sreq[c].outFrom + 2
                                  /\ Responses(c, n) = {Len(out[c])}
                                  /\ HeaderOf(c, Len(out[c])).seq = reqs[c][n].seq

\* C23 witness: after a call whose response was suppressed, a second call of
\* ServeRequest returned nil with the response of a panicked invoker written.
C23_Witness ==
    \E c \in Conns :
        /\ sreq[c].ret = "nil" /\ sreq[c].outcome = "panic"
        /\ Len(reqs[c]) = 2 /\ reqs[c][1].kind = "veto"
        /\ Responded(c, 2)
        /\ HeaderOf(c, 2).error = ServicePanic

\* Nothing of the RPC protocol has happened on c.
Untouched(c) ==
    /\ codec[c] = "nil"
    /\ reqs[c] = <<>> /\ out[c] = <<>>
    /\ framing[c] = "header"
    /\ web[c].line = ""
    /\ \A i \in Procs : ctx[c][i] = NoContext
    /\ \A i \in Tasks : pc[c][i] = "none"

\* C24: a connection the server-wide PostConnAccept hook rejected is never
\* served: it has no codec, no header was read from it, nothing was written
\* to it, it has no reader and no call task; the accept loop is still in its
\* loop, ready for the next connection; a connection the hook accepted has
\* its codec and its own reader, whose contexts are bound to that connection
\* and whose responses answer requests of that connection.
C24_RejectedNeverServed ==
    \A c \in Conns :
        /\ web[c].postConnAccept = "rejected" =>
              /\ pc[c][0] = "rejected"
              /\ Untouched(c)
              /\ \A d \in Conns :
                    (listener = "open" /\ pc[d][0] = "new") => ENABLED Accept(d)
        /\ web[c].postConnAccept = "accepted" =>
              /\ pc[c][0] \in {"loop", "reading", "header", "read", "send", "whdr",
                               "wbody", "put", "close", "done"}
              /\ codec[c] = "bound"
              /\ \A i \in Procs :
                    ctx[c][i] # NoContext => ctx[c][i].codecConn = c
              /\ \A k \in Parts(c) : out[c][k].req \in Frames(c)
        /\ web[c].postConnAccept = "none" => (pc[c][0] \in {"new", "http"} /\ Untouched(c))

\* C24 witness: the first connection was rejected, the accept loop went on,
\* the second connection was accepted and a call on it was answered.
C24_Witness ==
    /\ web["c1"].postConnAccept = "rejected"
    /\ web["c2"].postConnAccept = "accepted"
    /\ Responded("c2", 1) /\ pc["c2"][0] = "reading"

\* C25: a connection is closed by ServeConn only when every call task
\* spawned for it has written its response: after EOF, after a broken frame
\* and after a stop of the server the responses of the requests decoded
\* before are on the connection when it is closed.
C25_CloseAfterResponses ==
    \A c \in Conns :
        closed[c] => \A i \in Tasks : pc[c][i] # "none" => Responded(c, i)

\* C26: once a shutdown that waited for the calls has returned nil, no
\* invoker is running and none starts: no reader is between the decoding of
\* a request and its dispatch, no call task is in its invoker and the
\* in-flight counter stays at the zero the wait observed.
C26_NoCallAfterShutdown ==
    (sd.pc = "returned" /\ sd.result = "nil" /\ sd.waited) =>
        /\ callGroup = 0
        /\ \A c \in Conns :
              /\ pc[c][0] # "read"
              /\ \A i \in Tasks : pc[c][i] # "invoke"

\* C28: the send mutex of a connection is held only by a process that is in
\* its response write: whatever way a write ends (done, error, panic
\* recovered by call) the mutex is free again, so a process that wants to
\* send is never locked out by a write that is over.
C28_MutexReleased ==
    \A c \in Conns : \A i \in sending[c] : pc[c][i] \in {"whdr", "wbody"}

\* The processes between their callGroup.Add(1) and their callGroup.Done():
\* a reader (or a ServeRequest) in an error response or before its
\* putContext, a call task that is alive.
Counted ==
    {t \in Conns \X Procs :
        pc[t[1]][t[2]] \in
            IF t[2] = 0 THEN {"call", "send", "whdr", "wbody", "put"}
            ELSE {"invoke", "send", "whdr", "wbody", "put"}}

\* The counter is the number of those processes; a call task that is done
\* has returned its context and has been through its write.
C27_Balanced ==
    /\ callGroup >= 0
    /\ callGroup = Cardinality(Counted)
    /\ \A c \in Conns : \A i \in Tasks :
          pc[c][i] = "done" =>
              /\ ctx[c][i] = NoContext
              /\ i \notin sending[c]
              /\ Responded(c, i) \/ closed[c]

\* A step that changes the counter is the Add(1) of a reader that has just
\* left readRequest, or the Done() of a process that has put its context
\* back; either changes it by one.
C27_Step ==
    callGroup' # callGroup =>
        \E c \in Conns :
            \/ /\ callGroup' = callGroup + 1
               /\ pc[c][0] = "read" /\ pc'[c][0] # "read"
            \/ /\ callGroup' = callGroup - 1
               /\ \E i \in Procs :
                     /\ pc[c][i] = "put" /\ pc'[c][i] \notin {"put", "send"}
                     /\ ctx'[c][i] = NoContext

\* C27: the in-flight counter is balanced on every path of ServeConn and
\* ServeRequest: it is incremented once per iteration, right after
\* readRequest, and decremented once, after the response write (if any) and
\* the return of the context, whatever the path (success, invoker error,
\* invoker panic, error response, suppressed response, EOF, corrupt
\* framing); so it is never negative, it counts the processes between their
\* increment and their decrement, and it is zero when there is none.
C27_CounterBalanced == []C27_Balanced /\ [][C27_Step]_vars

\* C27 witness: a panicked call, a failed call and the EOF that followed
\* them have all been through their decrement: the reader and the tasks are
\* done and the counter is back at zero.
C27_Witness ==
    \E c \in Conns :
        /\ outcome[c][1] = "panic" /\ outcome[c][2] = "fail"
        /\ pc[c][0] = "done" /\ pc[c][1] = "done" /\ pc[c][2] = "done"
        /\ Len(reqs[c]) = 3 /\ reqs[c][3].kind = "eof"
        /\ callGroup = 0

\* C29: no Group call and no Register/NamedRegister call changes the prefix
\* list or the plugin list of a group that exists: a group keeps the
\* prefixes and the plugins it was created with, whatever is derived from
\* its parent or registered under it afterwards.
C29_GroupsImmutable ==
    [][\A g \in 1..Len(groups) :
          /\ Elems(heap', groups'[g].prefixes) = Elems(heap, groups[g].prefixes)
          /\ groups'[g].plugins = groups[g].plugins]_vars

====
